---- MODULE Spec2Model ----
(***************************************************************************)
(* Multi-tenant personal-finance backend: the schema migration run at      *)
(* process start (initDB) and the owner-scoped record store served over    *)
(* the same PostgreSQL database.                                            *)
(*                                                                         *)
(* The database is one record `db`.  Every SQL statement is an operator    *)
(* from a database to [ok, db] (a failed statement leaves the database     *)
(* untouched: a statement is atomic, and a DO block is one statement).     *)
(* initDB is a process whose program counter walks MigPlan, the list of    *)
(* its statements in source order; request handlers are tasks.             *)
(***************************************************************************)
EXTENDS Integers, FiniteSets, Sequences, TLC

VARIABLES
    db,      \* the backing store: schema and rows
    mig,     \* the initDB run of the current process: status, pc, run number, the
             \* requests accepted before it started, whether it follows a run directly,
             \* the processes killed so far
    tasks,   \* request handlers suspended between two statements
    last,    \* the most recent HTTP response
    served,  \* the number of requests accepted so far
    pre      \* the store as it was when the current process started

vars == <<db, mig, tasks, last, served, pre>>

----------------------------------------------------------------------------
(* Bounds of the model *)

MaxUsers == 2
MaxRows == 2
MaxRuns == 3
MaxTasks == 2
MaxRequests == 2
MaxKills == 1

----------------------------------------------------------------------------
(* Vocabulary *)

NULL == 0

ResourceTables == {"transactions", "goals", "cards", "investments", "budgets"}

IdTables == ResourceTables \ {"budgets"}

AllTables == {"users"} \cup ResourceTables

UserIds == 1..MaxUsers

Pins == {"1234", "9999"}

Names == {"Ana"}

Categories == {"food", "rent"}

Amounts == {100, 150}

\* A field the request body does not carry: undefined, bound as SQL null
Absent == -1

\* Days, as numbers of the calendar
Dates == {1, 2}

TaskIds == 1..MaxTasks

FkName(t) ==
    CASE t = "transactions" -> "transactions_user_fk"
      [] t = "goals" -> "goals_user_fk"
      [] t = "cards" -> "cards_user_fk"
      [] t = "investments" -> "investments_user_fk"
      [] t = "budgets" -> "budgets_user_fk"

\* The name the store gives the column constraint user_id REFERENCES users(id)
InlineFkName(t) ==
    CASE t = "transactions" -> "transactions_user_id_fkey"
      [] t = "goals" -> "goals_user_id_fkey"
      [] t = "cards" -> "cards_user_id_fkey"
      [] t = "investments" -> "investments_user_id_fkey"
      [] t = "budgets" -> "budgets_user_id_fkey"

IndexName(t) ==
    CASE t = "transactions" -> "idx_transactions_user_date"
      [] t = "goals" -> "idx_goals_user"
      [] t = "cards" -> "idx_cards_user"
      [] t = "investments" -> "idx_investments_user"
      [] t = "budgets" -> "idx_budgets_user"

----------------------------------------------------------------------------
(* Reading the store *)

UserIdSet(d) == {u.id : u \in d.users}

AllRows(d) == UNION {d.rows[t] : t \in ResourceTables}

RowCount(d) == Cardinality(d.rows["transactions"]) + Cardinality(d.rows["goals"])
               + Cardinality(d.rows["cards"]) + Cardinality(d.rows["investments"])
               + Cardinality(d.rows["budgets"])

HasNullOwner(d, t) == \E r \in d.rows[t] : r.user_id = NULL

\* UNIQUE (pin): no two user rows share a pin
PinsDistinct(us) == \A u, v \in us : u.pin = v.pin => u = v

\* UNIQUE (name): no two user rows share a name
NamesDistinct(us) == \A u, v \in us : u.name = v.name => u = v

\* UNIQUE (category): the single-tenant revisions' budgets_category_key
CategoryDistinct(rs) == \A r, s \in rs : r.category = s.category => r = s

\* UNIQUE (user_id, category): SQL treats null user_ids as distinct
UserCategoryDistinct(rs) ==
    \A r, s \in rs :
        (r.user_id # NULL /\ r.user_id = s.user_id /\ r.category = s.category) => r = s

\* FOREIGN KEY (user_id) REFERENCES users(id): nulls are not checked
OwnersExist(d, rs) == \A r \in rs : r.user_id = NULL \/ r.user_id \in UserIdSet(d)

Min(S) == CHOOSE x \in S : \A y \in S : x <= y

Ok(d) == [ok |-> TRUE, db |-> d]

Err(d) == [ok |-> FALSE, db |-> d]

----------------------------------------------------------------------------
(* The statements of initDB *)

\* Fault variant of CreateTableIfNotExists: DROP TABLE IF EXISTS, then CREATE TABLE
DropAndCreateTable(d, t) ==
    IF t = "users"
    THEN Ok([d EXCEPT !.tables = @ \cup {t}, !.users = {}, !.seq[t] = 0])
    ELSE Ok([d EXCEPT !.tables = @ \cup {t}, !.userIdCol = @ \cup {t},
                      !.rows[t] = {}, !.seq[t] = 0])

\* CREATE TABLE IF NOT EXISTS: the multi-tenant definitions carry user_id
CreateTableIfNotExists(d, t) ==
    IF t \in d.tables THEN Ok(d)
    ELSE Ok([d EXCEPT !.tables = @ \cup {t},
                      !.userIdCol = IF t \in ResourceTables THEN @ \cup {t} ELSE @])

\* DO block: add users_pin_unique unless a constraint of that name exists
EnsureUsersPinUnique(d) ==
    IF "users_pin_unique" \in d.constraints THEN Ok(d)
    ELSE IF "users" \notin d.tables \/ ~PinsDistinct(d.users) THEN Err(d)
    ELSE Ok([d EXCEPT !.constraints = @ \cup {"users_pin_unique"}])

\* Fault variant of ensureColumn: the column is put back to its declaration,
\* INTEGER without NOT NULL
ensureColumnNullable(d, t) ==
    IF t \notin d.tables THEN Err(d)
    ELSE Ok([d EXCEPT !.userIdCol = @ \cup {t}, !.notNull = @ \ {t}])

\* Fault variant of ensureColumn: ADD COLUMN without IF NOT EXISTS
AddColumn(d, t) ==
    IF t \notin d.tables \/ t \in d.userIdCol THEN Err(d)
    ELSE Ok([d EXCEPT !.userIdCol = @ \cup {t}])

\* ALTER TABLE t ADD COLUMN IF NOT EXISTS user_id INTEGER
ensureColumn(d, t) ==
    IF t \notin d.tables THEN Err(d)
    ELSE Ok([d EXCEPT !.userIdCol = @ \cup {t}])

\* CREATE INDEX IF NOT EXISTS idx ON t (user_id, ...)
ensureIndex(d, t) ==
    IF t \notin d.tables \/ t \notin d.userIdCol THEN Err(d)
    ELSE Ok([d EXCEPT !.indexes = @ \cup {IndexName(t)}])

\* Fault variant of ReplaceBudgetsUnique: budgets_category_key is not dropped
ReplaceBudgetsUniqueKeepingOld(d) ==
    IF "budgets" \notin d.tables THEN Err(d)
    ELSE IF "budgets_user_category_unique" \in d.constraints THEN Ok(d)
    ELSE IF "budgets" \notin d.userIdCol \/ ~UserCategoryDistinct(d.rows["budgets"])
         THEN Err(d)
    ELSE Ok([d EXCEPT !.constraints = @ \cup {"budgets_user_category_unique"}])

\* DO block: drop budgets_category_key if present, add budgets_user_category_unique
\* if absent; an error in the ADD rolls the DROP back with it
ReplaceBudgetsUnique(d) ==
    LET dropped == d.constraints \ {"budgets_category_key"}
    IN  IF "budgets" \notin d.tables THEN Err(d)
        ELSE IF "budgets_user_category_unique" \in dropped
             THEN Ok([d EXCEPT !.constraints = dropped])
        ELSE IF "budgets" \notin d.userIdCol \/ ~UserCategoryDistinct(d.rows["budgets"])
             THEN Err(d)
        ELSE Ok([d EXCEPT !.constraints = dropped \cup {"budgets_user_category_unique"}])

\* Fault variant of AddForeignKeys: the block adds no constraint
AddForeignKeysSkipped(d) == Ok(d)

\* DO block: add each missing <table>_user_fk; any violation rolls all of them back
AddForeignKeys(d) ==
    LET missing == {t \in ResourceTables : FkName(t) \notin d.constraints}
    IN  IF \E t \in missing : t \notin d.tables \/ t \notin d.userIdCol
                                 \/ ~OwnersExist(d, d.rows[t])
        THEN Err(d)
        ELSE Ok([d EXCEPT !.constraints = @ \cup {FkName(t) : t \in missing}])

\* Fault variant of SetOwnerWhereNull: the UPDATE matches no row
SetOwnerNowhere(rs, uid) == rs

\* UPDATE t SET user_id = uid WHERE user_id IS NULL
SetOwnerWhereNull(rs, uid) ==
    {IF r.user_id = NULL THEN [r EXCEPT !.user_id = uid] ELSE r : r \in rs}

\* Fault variant of BackfillOwner: only the first UPDATE of the block is run
BackfillOwnerFirstTable(d) ==
    IF Cardinality(d.users) = 1 THEN
        IF \E t \in ResourceTables : t \notin d.tables \/ t \notin d.userIdCol
        THEN Err(d)
        ELSE Ok([d EXCEPT !.rows["transactions"] = SetOwnerWhereNull(@, Min(UserIdSet(d)))])
    ELSE IF "users" \notin d.tables THEN Err(d)
    ELSE Ok(d)

\* DO block: when exactly one user exists, give every ownerless row to that user
BackfillOwner(d) ==
    IF Cardinality(d.users) = 1 THEN
        LET uid == Min(UserIdSet(d))
            filled == [t \in ResourceTables |-> SetOwnerWhereNull(d.rows[t], uid)]
        IN  IF \E t \in ResourceTables : t \notin d.tables \/ t \notin d.userIdCol
            THEN Err(d)
            ELSE IF "budgets_user_category_unique" \in d.constraints
                    /\ ~UserCategoryDistinct(filled["budgets"])
            THEN Err(d)
            ELSE Ok([d EXCEPT !.rows = filled])
    ELSE IF "users" \notin d.tables THEN Err(d)
    ELSE Ok(d)

\* Fault variant of TightenNotNull: SET NOT NULL on every table, neither scanning
\* for nulls nor handling the exception
TightenNotNullUnchecked(d) ==
    IF \E t \in ResourceTables : t \notin d.tables \/ t \notin d.userIdCol
                                     \/ HasNullOwner(d, t)
    THEN Err(d)
    ELSE Ok([d EXCEPT !.notNull = ResourceTables])

\* Fault variant of TightenNotNull: one test for the five tables, SET NOT NULL on
\* all of them or on none
TightenNotNullTogether(d) ==
    IF \E t \in ResourceTables : t \notin d.tables \/ t \notin d.userIdCol
    THEN Ok(d)
    ELSE IF \E t \in ResourceTables : HasNullOwner(d, t) THEN Ok(d)
    ELSE Ok([d EXCEPT !.notNull = ResourceTables])

\* DO block: SET NOT NULL on every table that holds no null user_id;
\* EXCEPTION WHEN others THEN NULL swallows any error and undoes the block
TightenNotNull(d) ==
    IF \E t \in ResourceTables : t \notin d.tables \/ t \notin d.userIdCol
    THEN Ok(d)
    ELSE Ok([d EXCEPT !.notNull = @ \cup {t \in ResourceTables : ~HasNullOwner(d, t)}])

\* Fault variant of MigPlan: NOT NULL is tightened before the backfill
MigPlanTightenFirst ==
    << [op |-> "table", t |-> "users"],
       [op |-> "pin_unique", t |-> "users"],
       [op |-> "table", t |-> "transactions"],
       [op |-> "column", t |-> "transactions"],
       [op |-> "index", t |-> "transactions"],
       [op |-> "table", t |-> "goals"],
       [op |-> "column", t |-> "goals"],
       [op |-> "index", t |-> "goals"],
       [op |-> "table", t |-> "cards"],
       [op |-> "column", t |-> "cards"],
       [op |-> "index", t |-> "cards"],
       [op |-> "table", t |-> "investments"],
       [op |-> "column", t |-> "investments"],
       [op |-> "index", t |-> "investments"],
       [op |-> "table", t |-> "budgets"],
       [op |-> "column", t |-> "budgets"],
       [op |-> "budgets_unique", t |-> "budgets"],
       [op |-> "index", t |-> "budgets"],
       [op |-> "foreign_keys", t |-> "users"],
       [op |-> "tighten", t |-> "users"],
       [op |-> "backfill", t |-> "users"] >>

\* The statements of initDB in source order
MigPlan ==
    << [op |-> "table", t |-> "users"],
       [op |-> "pin_unique", t |-> "users"],
       [op |-> "table", t |-> "transactions"],
       [op |-> "column", t |-> "transactions"],
       [op |-> "index", t |-> "transactions"],
       [op |-> "table", t |-> "goals"],
       [op |-> "column", t |-> "goals"],
       [op |-> "index", t |-> "goals"],
       [op |-> "table", t |-> "cards"],
       [op |-> "column", t |-> "cards"],
       [op |-> "index", t |-> "cards"],
       [op |-> "table", t |-> "investments"],
       [op |-> "column", t |-> "investments"],
       [op |-> "index", t |-> "investments"],
       [op |-> "table", t |-> "budgets"],
       [op |-> "column", t |-> "budgets"],
       [op |-> "budgets_unique", t |-> "budgets"],
       [op |-> "index", t |-> "budgets"],
       [op |-> "foreign_keys", t |-> "users"],
       [op |-> "backfill", t |-> "users"],
       [op |-> "tighten", t |-> "users"] >>

RunStatement(d, s) ==
    CASE s.op = "table" -> CreateTableIfNotExists(d, s.t)
      [] s.op = "pin_unique" -> EnsureUsersPinUnique(d)
      [] s.op = "column" -> ensureColumn(d, s.t)
      [] s.op = "index" -> ensureIndex(d, s.t)
      [] s.op = "budgets_unique" -> ReplaceBudgetsUnique(d)
      [] s.op = "foreign_keys" -> AddForeignKeys(d)
      [] s.op = "backfill" -> BackfillOwner(d)
      [] s.op = "tighten" -> TightenNotNull(d)

----------------------------------------------------------------------------
(* The statements of the request handlers *)

NoCategory == "none"

\* The date column of a row of table t: transactions alone have one, and the
\* requests of the model all carry the same day
DateOf(t) == IF t = "transactions" THEN Min(Dates) ELSE NULL

Columns(d, t) == t \in d.tables /\ t \in d.userIdCol

\* The constraints an INSERT or UPDATE of table t must satisfy
RowsAllowed(d, t, rs) ==
    /\ (FkName(t) \in d.constraints \/ InlineFkName(t) \in d.constraints
            => OwnersExist(d, rs))
    /\ (t \in d.notNull => \A r \in rs : r.user_id # NULL)
    /\ (t = "budgets" /\ "budgets_category_key" \in d.constraints => CategoryDistinct(rs))
    /\ (t = "budgets" /\ ("budgets_user_category_unique" \in d.constraints
                             \/ "budgets_user_id_category_key" \in d.constraints)
            => UserCategoryDistinct(rs))

\* INSERT INTO t (user_id, ...) VALUES (...) RETURNING id; the amount column
\* (amount, target, limit_amount, value_amount) is NOT NULL
InsertRow(d, t, uid, cat, amt) ==
    LET id == d.seq[t] + 1
        row == [id |-> id, user_id |-> uid, category |-> cat, amount |-> amt,
                date |-> DateOf(t)]
        rs == d.rows[t] \cup {row}
    IN  IF ~Columns(d, t) THEN [ok |-> FALSE, err |-> "undefined", db |-> d, id |-> NULL]
        ELSE IF amt = Absent \/ ~RowsAllowed(d, t, rs)
        THEN [ok |-> FALSE, err |-> "violation", db |-> d, id |-> NULL]
        ELSE [ok |-> TRUE, err |-> "none", id |-> id,
              db |-> [d EXCEPT !.rows[t] = rs, !.seq[t] = id]]

\* Fault variant of ById: WHERE id = $1, without the owner
ByIdAnyOwner(d, t, uid, id) == {r \in d.rows[t] : r.id = id}

\* Fault variant of ById: WHERE id = $1 AND (user_id = $2 OR user_id IS NULL)
ByIdOrUnowned(d, t, uid, id) ==
    {r \in d.rows[t] : r.id = id /\ (r.user_id = uid \/ r.user_id = NULL)}

\* The rows a statement's WHERE clause selects
ById(d, t, uid, id) == {r \in d.rows[t] : r.id = id /\ r.user_id = uid}

ByCategory(d, uid, cat) ==
    {r \in d.rows["budgets"] : r.user_id = uid /\ r.category = cat}

\* Fault variant of SelectOwned: SELECT * FROM t, without the WHERE clause
SelectAll(d, t, uid) == d.rows[t]

\* SELECT * FROM t WHERE user_id = uid
SelectOwned(d, t, uid) == {r \in d.rows[t] : r.user_id = uid}

\* The ORDER BY clause of the multi-tenant List of table t
OrderBy(t) == IF t = "transactions" THEN "date_desc_id_desc" ELSE "id_asc"

\* Row a sorts strictly before row b under the ORDER BY clause o
Precedes(o, a, b) ==
    CASE o = "date_desc" -> a.date > b.date
      [] o = "date_desc_id_desc" -> a.date > b.date \/ (a.date = b.date /\ a.id > b.id)
      [] o = "id_asc" -> a.id < b.id

\* The sequences a SELECT ... ORDER BY o may return for the rows rs: every row
\* once, none ahead of a row that precedes it; rows the clause leaves tied come
\* in whatever order the store produces them
Ordered(rs, o) ==
    {s \in [1..Cardinality(rs) -> rs] :
        \A i, j \in 1..Cardinality(rs) :
            i < j => s[i] # s[j] /\ ~Precedes(o, s[j], s[i])}

\* Fault variant of UpdateRows: the id is lost from the WHERE clause, every row
\* of the owner is updated
UpdateRowsOfOwner(d, t, hit, amt) ==
    IF ~Columns(d, t) THEN [ok |-> FALSE, err |-> "undefined", db |-> d, rowCount |-> 0]
    ELSE IF amt = Absent /\ hit # {}
    THEN [ok |-> FALSE, err |-> "violation", db |-> d, rowCount |-> 0]
    ELSE [ok |-> TRUE, err |-> "none", rowCount |-> Cardinality(hit),
          db |-> [d EXCEPT !.rows[t] =
                     {IF \E q \in hit : q.user_id = r.user_id
                      THEN [r EXCEPT !.amount = amt] ELSE r : r \in @}]]

\* Fault variant of UpdateRows: the SET list also clears user_id
UpdateRowsClearingOwner(d, t, hit, amt) ==
    IF ~Columns(d, t) THEN [ok |-> FALSE, err |-> "undefined", db |-> d, rowCount |-> 0]
    ELSE [ok |-> TRUE, err |-> "none", rowCount |-> Cardinality(hit),
          db |-> [d EXCEPT !.rows[t] =
                     {IF r \in hit THEN [r EXCEPT !.amount = amt, !.user_id = NULL]
                      ELSE r : r \in @}]]

\* UPDATE t SET amount = amt WHERE <hit>: [ok, db, rowCount]
UpdateRows(d, t, hit, amt) ==
    IF ~Columns(d, t) THEN [ok |-> FALSE, err |-> "undefined", db |-> d, rowCount |-> 0]
    ELSE IF amt = Absent /\ hit # {}
    THEN [ok |-> FALSE, err |-> "violation", db |-> d, rowCount |-> 0]
    ELSE [ok |-> TRUE, err |-> "none", rowCount |-> Cardinality(hit),
          db |-> [d EXCEPT !.rows[t] =
                     {IF r \in hit THEN [r EXCEPT !.amount = amt] ELSE r : r \in @}]]

\* Fault variant of DeleteRows: the statement has lost its WHERE clause
DeleteRowsAll(d, t, hit) ==
    IF ~Columns(d, t) THEN [ok |-> FALSE, err |-> "undefined", db |-> d, rowCount |-> 0]
    ELSE [ok |-> TRUE, err |-> "none", rowCount |-> Cardinality(d.rows[t]),
          db |-> [d EXCEPT !.rows[t] = {}]]

\* DELETE FROM t WHERE <hit>
DeleteRows(d, t, hit) ==
    IF ~Columns(d, t) THEN [ok |-> FALSE, err |-> "undefined", db |-> d, rowCount |-> 0]
    ELSE [ok |-> TRUE, err |-> "none", rowCount |-> Cardinality(hit),
          db |-> [d EXCEPT !.rows[t] = @ \ hit]]

\* INSERT INTO users (name, pin) VALUES (...) RETURNING id, ...
InsertUser(d, name, pin) ==
    LET id == d.seq["users"] + 1
        us == d.users \cup {[id |-> id, name |-> name, pin |-> pin]}
    IN  IF "users" \notin d.tables
        THEN [ok |-> FALSE, err |-> "undefined", db |-> d, id |-> NULL]
        ELSE IF \/ "users_pin_unique" \in d.constraints /\ ~PinsDistinct(us)
                \/ "users_name_key" \in d.constraints /\ ~NamesDistinct(us)
        THEN [ok |-> FALSE, err |-> "violation", db |-> d, id |-> NULL]
        ELSE [ok |-> TRUE, err |-> "none", id |-> id,
              db |-> [d EXCEPT !.users = us, !.seq["users"] = id]]

\* DELETE FROM users WHERE id = uid, in an administrator's session: ON DELETE
\* CASCADE removes the user's rows from every table that has its foreign key
DeleteUser(d, uid) ==
    IF "users" \notin d.tables THEN Err(d)
    ELSE Ok([d EXCEPT
                !.users = {u \in @ : u.id # uid},
                !.rows = [t \in ResourceTables |->
                             IF FkName(t) \in d.constraints
                             THEN {r \in d.rows[t] : r.user_id # uid}
                             ELSE d.rows[t]]])

----------------------------------------------------------------------------
(* The x-user-id header and the responses *)

Headers ==
    {[kind |-> "absent", n |-> 0], [kind |-> "text", n |-> 0]}
        \cup {[kind |-> "num", n |-> k] : k \in (-1)..MaxUsers}

\* Headers whose text is a number with a fraction: kind "frac" stands for n + 1/2
FractionHeaders == {[kind |-> "frac", n |-> k] : k \in (-1)..1}

AllHeaders == Headers \cup FractionHeaders

\* requireUserId: NULL when the request is answered 401, else req.userId. For a
\* header n + 1/2 that is finite and positive req.userId is no integer: what is
\* returned is the integer above it, which no statement receives (see Binds)
requireUserId(h) ==
    IF h.kind = "num" THEN (IF h.n <= 0 THEN NULL ELSE h.n)
    ELSE IF h.kind = "frac" THEN (IF h.n < 0 THEN NULL ELSE h.n + 1)
    ELSE NULL

\* The store takes req.userId as the integer parameter of a statement; it fails
\* the statement on any other number (invalid input syntax for type integer)
Binds(h) == h.kind = "num"

Response(op, t, uid, key, cat, val, pin, res) ==
    [op |-> op, tbl |-> t, uid |-> uid, key |-> key, cat |-> cat, val |-> val,
     pin |-> pin, status |-> res.status, id |-> res.id, err |-> res.err]

\* The response to a List: the rows of the body, in order
ListResponse(t, uid, res) ==
    [op |-> "list", tbl |-> t, uid |-> uid, key |-> NULL, cat |-> NoCategory,
     val |-> NULL, pin |-> "none", status |-> res.status, id |-> NULL, err |-> res.err,
     rows |-> res.rows]

NoResponse ==
    [op |-> "none", tbl |-> "none", uid |-> NULL, key |-> NULL,
     cat |-> NoCategory, val |-> NULL, pin |-> "none", status |-> 0, id |-> NULL,
     err |-> "none"]

IdleTask ==
    [pc |-> "idle", uid |-> NULL, cat |-> NoCategory, val |-> NULL,
     name |-> "none", pin |-> "none", found |-> NULL]

InFlight == Cardinality({t \in TaskIds : tasks[t].pc # "idle"})

Serving == mig.status # "off"

\* A request arrives at the listening process
Accept == Serving /\ served < MaxRequests /\ served' = served + 1

----------------------------------------------------------------------------
(* Handlers as functions of the store: [db, status, id] *)

\* What a handler leaves: the store, the HTTP status, the id in the body, and the
\* error its catch block logs ("violation": a constraint, "undefined": a missing
\* table or column)
Result(d, status, id, err) == [db |-> d, status |-> status, id |-> id, err |-> err]

\* GET /api/<kind>: the responses the handler may give, one per order the store
\* may return the rows in
ListHandler(d, t, uid) ==
    IF ~Columns(d, t) THEN {[status |-> 500, err |-> "undefined", rows |-> <<>>]}
    ELSE {[status |-> 200, err |-> "none", rows |-> s] :
             s \in Ordered(SelectOwned(d, t, uid), OrderBy(t))}

\* Fault variant of CreateHandler: a failed INSERT is answered as a success
CreateHandlerAbsorbing(d, t, uid, amt) ==
    LET res == InsertRow(d, t, uid, NoCategory, amt)
    IN  IF res.ok THEN Result(res.db, 200, res.id, "none") ELSE Result(d, 200, NULL, res.err)

\* POST /api/<kind>
CreateHandler(d, t, uid, amt) ==
    LET res == InsertRow(d, t, uid, NoCategory, amt)
    IN  IF res.ok THEN Result(res.db, 200, res.id, "none") ELSE Result(d, 500, NULL, res.err)

\* Fault variant of UpdateHandler: a row of that id held by someone else is
\* answered 403
UpdateHandlerForbidden(d, t, uid, id, amt) ==
    LET res == UpdateRows(d, t, ById(d, t, uid, id), amt)
    IN  IF ~res.ok THEN Result(d, 500, NULL, res.err)
        ELSE IF \E r \in d.rows[t] : r.id = id /\ r.user_id # uid
        THEN Result(d, 403, NULL, "none")
        ELSE IF res.rowCount = 0 THEN Result(d, 404, NULL, "none")
        ELSE Result(res.db, 200, NULL, "none")

\* PUT /api/<kind>/:id
UpdateHandler(d, t, uid, id, amt) ==
    LET res == UpdateRows(d, t, ById(d, t, uid, id), amt)
    IN  IF ~res.ok THEN Result(d, 500, NULL, res.err)
        ELSE IF res.rowCount = 0 THEN Result(d, 404, NULL, "none")
        ELSE Result(res.db, 200, NULL, "none")

\* DELETE /api/<kind>/:id
DeleteHandler(d, t, uid, id) ==
    LET res == DeleteRows(d, t, ById(d, t, uid, id))
    IN  IF ~res.ok THEN Result(d, 500, NULL, res.err)
        ELSE IF res.rowCount = 0 THEN Result(d, 404, NULL, "none")
        ELSE Result(res.db, 200, NULL, "none")

\* PUT /api/budgets/:category
PutBudgetHandler(d, uid, cat, amt) ==
    LET res == UpdateRows(d, "budgets", ByCategory(d, uid, cat), amt)
    IN  IF ~res.ok THEN Result(d, 500, NULL, res.err)
        ELSE IF res.rowCount = 0 THEN Result(d, 404, NULL, "none")
        ELSE Result(res.db, 200, NULL, "none")

\* DELETE /api/budgets/:category
DeleteBudgetHandler(d, uid, cat) ==
    LET res == DeleteRows(d, "budgets", ByCategory(d, uid, cat))
    IN  IF ~res.ok THEN Result(d, 500, NULL, res.err)
        ELSE IF res.rowCount = 0 THEN Result(d, 404, NULL, "none")
        ELSE Result(res.db, 200, NULL, "none")

\* Fault variant of UpsertFound: the lookup never finds the row
UpsertFoundNone(d, uid, cat) == {NULL}

\* POST /api/budgets, first statement: the ids c.rows[0].id may be (NULL: no row)
UpsertFound(d, uid, cat) ==
    IF ByCategory(d, uid, cat) = {} THEN {NULL}
    ELSE {r.id : r \in ByCategory(d, uid, cat)}

\* POST /api/budgets, second statement: UPDATE by id (rowCount ignored) or INSERT
UpsertWrite(d, uid, cat, amt, found) ==
    IF found # NULL THEN
        LET res == UpdateRows(d, "budgets", ById(d, "budgets", uid, found), amt)
        IN  IF res.ok THEN Result(res.db, 200, found, "none") ELSE Result(d, 500, NULL, res.err)
    ELSE
        LET res == InsertRow(d, "budgets", uid, cat, amt)
        IN  IF res.ok THEN Result(res.db, 200, res.id, "none") ELSE Result(d, 500, NULL, res.err)

\* Fault variant of PinTaken: the handler inserts without looking the pin up
PinTakenNever(d, pin) == FALSE

\* POST /api/auth/register, first statement: does a user hold the pin?
PinTaken(d, pin) == \E u \in d.users : u.pin = pin

\* POST /api/auth/register, second statement
RegisterWrite(d, name, pin) ==
    LET res == InsertUser(d, name, pin)
    IN  IF res.ok THEN Result(res.db, 200, res.id, "none") ELSE Result(d, 500, NULL, res.err)

----------------------------------------------------------------------------
(* Initial stores *)

EmptyRows == [t \in ResourceTables |-> {}]

\* No table exists yet
FreshStore ==
    [tables |-> {}, userIdCol |-> {}, constraints |-> {}, indexes |-> {},
     notNull |-> {}, users |-> {}, rows |-> EmptyRows,
     seq |-> [t \in AllTables |-> 0]]

\* Rows 1..n of table t as a single-tenant revision leaves them: no owner
LegacyRows(t, n, cat) ==
    {[id |-> i, user_id |-> NULL, amount |-> 100,
      category |-> IF t = "budgets" THEN cat[i] ELSE NoCategory,
      date |-> IF t = "transactions" THEN Min(Dates) ELSE NULL] : i \in 1..n}

UserChoices(n) ==
    {{[id |-> i, name |-> "Ana", pin |-> p[i]] : i \in 1..n} : p \in [1..n -> Pins]}

RowCounts ==
    {c \in [ResourceTables -> 0..MaxRows] :
        c["transactions"] + c["goals"] + c["cards"] + c["investments"] + c["budgets"]
            <= MaxRows}

\* A store left by a single-tenant revision: no user_id column anywhere, budgets
\* under UNIQUE(category), any number of users (their pins unconstrained)
LegacyStore(us, cnt, cat) ==
    [tables |-> AllTables, userIdCol |-> {}, constraints |-> {"budgets_category_key"},
     indexes |-> {}, notNull |-> {}, users |-> us,
     rows |-> [t \in ResourceTables |-> LegacyRows(t, cnt[t], cat)],
     seq |-> [t \in AllTables |-> IF t = "users" THEN Cardinality(us) ELSE cnt[t]]]

LegacyStores ==
    {d \in {LegacyStore(us, cnt, cat) :
                us \in UNION {UserChoices(n) : n \in 0..MaxUsers},
                cnt \in RowCounts,
                cat \in [1..MaxRows -> Categories]} :
        CategoryDistinct(d.rows["budgets"])}

OriginStores == {FreshStore} \cup LegacyStores

Init ==
    /\ db \in OriginStores
    /\ mig = [status |-> "off", pc |-> 1, runs |-> 0, at |-> 0, rerun |-> FALSE,
                      kills |-> 0]
    /\ tasks = [k \in TaskIds |-> IdleTask]
    /\ last = NoResponse
    /\ served = 0
    /\ pre = db

----------------------------------------------------------------------------
(* The process: initDB() is called, not awaited, and app.listen follows *)

ProcessStart ==
    /\ mig.status \in {"off", "done", "failed", "killed"}
    /\ mig.runs < MaxRuns
    /\ mig' = [status |-> "running", pc |-> 1, runs |-> mig.runs + 1, at |-> served,
               rerun |-> mig.status \in {"done", "failed"} /\ served = mig.at,
               kills |-> mig.kills]
    /\ tasks' = [k \in TaskIds |-> IdleTask]
    /\ last' = NoResponse
    /\ pre' = db
    /\ UNCHANGED <<db, served>>

MigAt(op) == mig.status = "running" /\ MigPlan[mig.pc].op = op

\* One awaited statement of initDB: on an error the catch block logs and initDB ends
MigAdvance(res) ==
    /\ db' = res.db
    /\ mig' = IF ~res.ok THEN [mig EXCEPT !.status = "failed"]
              ELSE IF mig.pc = Len(MigPlan) THEN [mig EXCEPT !.status = "done"]
              ELSE [mig EXCEPT !.pc = @ + 1]
    /\ UNCHANGED <<tasks, last, served, pre>>

MigEnsureTable ==
    /\ MigAt("table")
    /\ MigAdvance(CreateTableIfNotExists(db, MigPlan[mig.pc].t))

MigUsersPinUnique ==
    /\ MigAt("pin_unique")
    /\ MigAdvance(EnsureUsersPinUnique(db))

MigEnsureColumn ==
    /\ MigAt("column")
    /\ MigAdvance(ensureColumn(db, MigPlan[mig.pc].t))

MigEnsureIndex ==
    /\ MigAt("index")
    /\ MigAdvance(ensureIndex(db, MigPlan[mig.pc].t))

MigReplaceBudgetsUnique ==
    /\ MigAt("budgets_unique")
    /\ MigAdvance(ReplaceBudgetsUnique(db))

MigForeignKeys ==
    /\ MigAt("foreign_keys")
    /\ MigAdvance(AddForeignKeys(db))

MigBackfill ==
    /\ MigAt("backfill")
    /\ MigAdvance(BackfillOwner(db))

MigTighten ==
    /\ MigAt("tighten")
    /\ MigAdvance(TightenNotNull(db))

MigStep ==
    \/ MigEnsureTable
    \/ MigUsersPinUnique
    \/ MigEnsureColumn
    \/ MigEnsureIndex
    \/ MigReplaceBudgetsUnique
    \/ MigForeignKeys
    \/ MigBackfill
    \/ MigTighten

----------------------------------------------------------------------------
(* Request handlers.  A handler with one statement is one step; register and
   the budget upsert await twice, so other work runs between their statements. *)

Respond(op, t, uid, key, cat, val, pin, res) ==
    /\ db' = res.db
    /\ last' = Response(op, t, uid, key, cat, val, pin, res)

Reject(op, t) ==
    /\ last' = Response(op, t, NULL, NULL, NoCategory, NULL, "none",
                         [status |-> 401, id |-> NULL, err |-> "none"])
    /\ UNCHANGED db

\* The statement of a request whose req.userId is no integer fails, and the
\* handler's catch block answers 500
Unbound(op, t) ==
    /\ last' = Response(op, t, NULL, NULL, NoCategory, NULL, "none",
                         [status |-> 500, id |-> NULL,
                          err |-> IF Columns(db, t) THEN "invalid_text" ELSE "undefined"])
    /\ UNCHANGED db

Inserting == Cardinality({k \in TaskIds : tasks[k].pc = "upsert_write" /\ tasks[k].found = NULL})

Registering == Cardinality({k \in TaskIds : tasks[k].pc = "register_insert"})

\* The model's bound on rows and identifiers
HasRoom(t) == RowCount(db) + Inserting < MaxRows /\ db.seq[t] + Inserting < MaxRows

CreateRow(t, h, amt) ==
    /\ Accept
    /\ LET uid == requireUserId(h)
           res == CreateHandler(db, t, uid, amt)
       IN  IF uid = NULL THEN Reject("create", t)
           ELSE IF ~Binds(h) THEN Unbound("create", t)
           ELSE /\ res.status = 200 => HasRoom(t)
                /\ Respond("create", t, uid, NULL, NoCategory, amt, "none", res)
    /\ UNCHANGED <<mig, tasks, pre>>

UpdateRow(t, h, id, amt) ==
    /\ Accept
    /\ LET uid == requireUserId(h)
       IN  IF uid = NULL THEN Reject("update", t)
           ELSE IF ~Binds(h) THEN Unbound("update", t)
           ELSE Respond("update", t, uid, id, NoCategory, amt, "none",
                        UpdateHandler(db, t, uid, id, amt))
    /\ UNCHANGED <<mig, tasks, pre>>

DeleteRow(t, h, id) ==
    /\ Accept
    /\ LET uid == requireUserId(h)
       IN  IF uid = NULL THEN Reject("delete", t)
           ELSE IF ~Binds(h) THEN Unbound("delete", t)
           ELSE Respond("delete", t, uid, id, NoCategory, NULL, "none",
                        DeleteHandler(db, t, uid, id))
    /\ UNCHANGED <<mig, tasks, pre>>

ListRows(t, h) ==
    /\ Accept
    /\ LET uid == requireUserId(h)
       IN  IF uid = NULL THEN Reject("list", t)
           ELSE IF ~Binds(h) THEN Unbound("list", t)
           ELSE /\ \E res \in ListHandler(db, t, uid) : last' = ListResponse(t, uid, res)
                /\ UNCHANGED db
    /\ UNCHANGED <<mig, tasks, pre>>

PutBudget(h, cat, amt) ==
    /\ Accept
    /\ LET uid == requireUserId(h)
       IN  IF uid = NULL THEN Reject("update", "budgets")
           ELSE IF ~Binds(h) THEN Unbound("update", "budgets")
           ELSE Respond("update", "budgets", uid, NULL, cat, amt, "none",
                        PutBudgetHandler(db, uid, cat, amt))
    /\ UNCHANGED <<mig, tasks, pre>>

DeleteBudget(h, cat) ==
    /\ Accept
    /\ LET uid == requireUserId(h)
       IN  IF uid = NULL THEN Reject("delete", "budgets")
           ELSE IF ~Binds(h) THEN Unbound("delete", "budgets")
           ELSE Respond("delete", "budgets", uid, NULL, cat, NULL, "none",
                        DeleteBudgetHandler(db, uid, cat))
    /\ UNCHANGED <<mig, tasks, pre>>

\* POST /api/budgets up to the first await
UpsertBudgetSelect(k, h, cat, amt) ==
    /\ Accept
    /\ tasks[k].pc = "idle"
    /\ LET uid == requireUserId(h)
       IN  IF uid = NULL THEN Reject("upsert", "budgets") /\ UNCHANGED tasks
           ELSE IF ~Binds(h) THEN Unbound("upsert", "budgets") /\ UNCHANGED tasks
           ELSE IF ~Columns(db, "budgets")
           THEN /\ Respond("upsert", "budgets", uid, NULL, cat, amt, "none",
                           Result(db, 500, NULL, "undefined"))
                /\ UNCHANGED tasks
           ELSE \E found \in UpsertFound(db, uid, cat) :
                   /\ found = NULL => HasRoom("budgets")
                   /\ tasks' = [tasks EXCEPT ![k] =
                                   [IdleTask EXCEPT !.pc = "upsert_write", !.uid = uid,
                                       !.cat = cat, !.val = amt, !.found = found]]
                   /\ UNCHANGED <<db, last>>
    /\ UNCHANGED <<mig, pre>>

\* POST /api/budgets from the first await to the response
UpsertBudgetWrite(k) ==
    /\ tasks[k].pc = "upsert_write"
    /\ LET t == tasks[k]
       IN  Respond("upsert", "budgets", t.uid, t.found, t.cat, t.val, "none",
                   UpsertWrite(db, t.uid, t.cat, t.val, t.found))
    /\ tasks' = [tasks EXCEPT ![k] = IdleTask]
    /\ UNCHANGED <<mig, served, pre>>

\* POST /api/auth/register up to the first await
RegisterLookup(k, name, pin) ==
    /\ Accept
    /\ tasks[k].pc = "idle"
    /\ IF "users" \notin db.tables
       THEN /\ Respond("register", "users", NULL, NULL, NoCategory, NULL, pin,
                       Result(db, 500, NULL, "undefined"))
            /\ UNCHANGED tasks
       ELSE IF PinTaken(db, pin)
       THEN /\ Respond("register", "users", NULL, NULL, NoCategory, NULL, pin,
                       Result(db, 409, NULL, "none"))
            /\ UNCHANGED tasks
       ELSE /\ db.seq["users"] + Registering < MaxUsers
            /\ tasks' = [tasks EXCEPT ![k] =
                            [IdleTask EXCEPT !.pc = "register_insert", !.name = name,
                                             !.pin = pin]]
            /\ UNCHANGED <<db, last>>
    /\ UNCHANGED <<mig, pre>>

\* POST /api/auth/register from the first await to the response
RegisterInsert(k) ==
    /\ tasks[k].pc = "register_insert"
    /\ Respond("register", "users", NULL, NULL, NoCategory, NULL, tasks[k].pin,
               RegisterWrite(db, tasks[k].name, tasks[k].pin))
    /\ tasks' = [tasks EXCEPT ![k] = IdleTask]
    /\ UNCHANGED <<mig, served, pre>>

Ids == 1..MaxRows

RequestRows ==
    \/ \E t \in IdTables, h \in Headers, amt \in Amounts : CreateRow(t, h, amt)
    \/ \E t \in IdTables, h \in Headers, id \in Ids, amt \in Amounts : UpdateRow(t, h, id, amt)
    \/ \E t \in IdTables, h \in Headers, id \in Ids : DeleteRow(t, h, id)

RequestBudgets ==
    \/ \E h \in Headers, cat \in Categories, amt \in Amounts : PutBudget(h, cat, amt)
    \/ \E h \in Headers, cat \in Categories : DeleteBudget(h, cat)
    \/ \E k \in TaskIds, h \in Headers, cat \in Categories, amt \in Amounts :
          UpsertBudgetSelect(k, h, cat, amt)
    \/ \E k \in TaskIds : UpsertBudgetWrite(k)

RequestUsers ==
    \/ \E k \in TaskIds, name \in Names, pin \in Pins : RegisterLookup(k, name, pin)
    \/ \E k \in TaskIds : RegisterInsert(k)

Request == RequestRows \/ RequestBudgets \/ RequestUsers

RequestLists == \E t \in ResourceTables, h \in Headers : ListRows(t, h)

\* The program: requests are served from process start, beside the running initDB
Next == ProcessStart \/ MigStep \/ Request \/ RequestLists

Spec == Init /\ [][Next]_vars

InitFresh == Init /\ db = FreshStore

MigEnded == mig.status \in {"done", "failed"}

\* What the promise of initDB settles to, by the status of the run: the body
\* has no return statement and its catch logs the error without rethrowing, so
\* an ended run fulfils the promise with undefined whether a stage failed or not
initDBResult(status) ==
    IF status \in {"done", "failed"}
    THEN [settled |-> "fulfilled", value |-> "undefined"]
    ELSE [settled |-> "pending", value |-> "none"]

\* The migration engine alone
NextMig == ProcessStart \/ MigStep

SpecMig == Init /\ [][NextMig]_vars

\* A request is accepted only when none is in flight
OneAtATime == InFlight = 0 \/ served' = served

\* Registrations and budgets served one at a time once initDB has ended
NextQuiet ==
    \/ ProcessStart
    \/ MigStep
    \/ (MigEnded /\ OneAtATime /\ (RequestUsers \/ RequestBudgets))

SpecQuiet == Init /\ [][NextQuiet]_vars

\* What a whole run of initDB leaves of store d, from statement pc on
RECURSIVE RunFrom(_, _)
RunFrom(d, pc) ==
    IF pc > Len(MigPlan) THEN [ok |-> TRUE, db |-> d, pc |-> Len(MigPlan)]
    ELSE LET res == RunStatement(d, MigPlan[pc])
         IN  IF res.ok THEN RunFrom(res.db, pc + 1)
             ELSE [ok |-> FALSE, db |-> d, pc |-> pc]

\* The record store once the first run of initDB has ended, no request before it
InitStore ==
    \E d \in OriginStores :
        LET run == RunFrom(d, 1)
        IN  /\ db = run.db
            /\ mig = [status |-> IF run.ok THEN "done" ELSE "failed", pc |-> run.pc,
                      runs |-> 1, at |-> 0, rerun |-> FALSE,
                      kills |-> 0]
            /\ tasks = [k \in TaskIds |-> IdleTask]
            /\ last = NoResponse
            /\ served = 0
            /\ pre = d

SpecStore == InitStore /\ [][Request]_vars

\* Budget upserts alone, concurrent or not, on a store initDB has run on
NextUpserts ==
    \/ \E k \in TaskIds, h \in Headers, cat \in Categories, amt \in Amounts :
          UpsertBudgetSelect(k, h, cat, amt)
    \/ \E k \in TaskIds : UpsertBudgetWrite(k)

SpecUpserts == InitStore /\ [][NextUpserts]_vars

\* Registrations alone, concurrent or not, on a store initDB has run on
SpecRegistrations == InitStore /\ [][RequestUsers]_vars

\* An administrator deletes a user directly in the database
AdminDeleteUser(uid) ==
    /\ uid \in UserIdSet(db)
    /\ db' = DeleteUser(db, uid).db
    /\ UNCHANGED <<mig, tasks, last, served, pre>>

\* Every request, for each owner and row but with one amount: the amount plays
\* no part in who owns a row
RequestOwned ==
    \/ \E t \in IdTables, h \in Headers : CreateRow(t, h, 100)
    \/ \E t \in IdTables, h \in Headers, id \in Ids : UpdateRow(t, h, id, 150)
    \/ \E t \in IdTables, h \in Headers, id \in Ids : DeleteRow(t, h, id)
    \/ \E h \in Headers, cat \in Categories : PutBudget(h, cat, 150)
    \/ \E h \in Headers, cat \in Categories : DeleteBudget(h, cat)
    \/ \E k \in TaskIds, h \in Headers, cat \in Categories :
          UpsertBudgetSelect(k, h, cat, 100)
    \/ \E k \in TaskIds : UpsertBudgetWrite(k)
    \/ RequestUsers

\* Requests on a migrated store, a user deletion at any point between them
NextAdmin == RequestOwned \/ \E uid \in UserIds : AdminDeleteUser(uid)

\* The stores a run of initDB has completed on
InitMigrated == InitStore /\ mig.status = "done"

SpecAdmin == InitMigrated /\ [][NextAdmin]_vars

\* Lists among the other requests on a store initDB has run on
NextLists == RequestOwned \/ RequestLists

SpecLists == InitStore /\ [][NextLists]_vars

\* One owner's session on a migrated store: creates, lists and deletes, with a
\* user deletion at any point between them
NextSession == NextAdmin \/ RequestLists

SpecSession == InitMigrated /\ [][NextSession]_vars

\* Every owner-scoped request with every header, fractions included, with one
\* amount
RequestAnyHeader ==
    \/ \E t \in ResourceTables, h \in AllHeaders : ListRows(t, h)
    \/ \E t \in IdTables, h \in AllHeaders : CreateRow(t, h, 100)
    \/ \E t \in IdTables, h \in AllHeaders, id \in Ids : UpdateRow(t, h, id, 150)
    \/ \E t \in IdTables, h \in AllHeaders, id \in Ids : DeleteRow(t, h, id)
    \/ \E h \in AllHeaders, cat \in Categories : PutBudget(h, cat, 150)
    \/ \E h \in AllHeaders, cat \in Categories : DeleteBudget(h, cat)
    \/ \E k \in TaskIds, h \in AllHeaders, cat \in Categories :
          UpsertBudgetSelect(k, h, cat, 100)
    \/ \E k \in TaskIds : UpsertBudgetWrite(k)

SpecHeaders == InitStore /\ [][RequestAnyHeader]_vars

\* What the money field of a request body may be
BodyAmounts == Amounts \cup {Absent}

\* Creates, Updates and budget upserts whose body may lack its money field
NextBodies ==
    \/ \E t \in IdTables, h \in Headers, amt \in BodyAmounts : CreateRow(t, h, amt)
    \/ \E t \in IdTables, h \in Headers, id \in Ids, amt \in BodyAmounts :
          UpdateRow(t, h, id, amt)
    \/ \E k \in TaskIds, h \in Headers, cat \in Categories, amt \in BodyAmounts :
          UpsertBudgetSelect(k, h, cat, amt)
    \/ \E k \in TaskIds : UpsertBudgetWrite(k)

SpecBodies == InitMigrated /\ [][NextBodies]_vars

\* Runs of initDB and, between them, every request served one at a time
NextOwners ==
    \/ ProcessStart
    \/ MigStep
    \/ (MigEnded /\ OneAtATime /\ RequestOwned)

SpecOwners == Init /\ [][NextOwners]_vars

\* The process is killed while initDB awaits a statement
ProcessKill ==
    /\ mig.status = "running"
    /\ mig.kills < MaxKills
    /\ mig' = [mig EXCEPT !.status = "killed", !.kills = @ + 1]
    /\ tasks' = [k \in TaskIds |-> IdleTask]
    /\ UNCHANGED <<db, last, served, pre>>

\* initDB runs that may be cut short by a kill, and restarts
NextKill == ProcessStart \/ MigStep \/ ProcessKill

SpecKill == Init /\ [][NextKill]_vars

----------------------------------------------------------------------------
(* The drop-and-recreate revision of initDB: two queries of several statements *)

\* DROP TABLE IF EXISTS <table> CASCADE for the six tables
DropTablesIfExist(d) ==
    Ok([d EXCEPT !.tables = {}, !.userIdCol = {}, !.constraints = {}, !.indexes = {},
                 !.notNull = {}, !.users = {}, !.rows = EmptyRows,
                 !.seq = [t \in AllTables |-> 0]])

\* CREATE TABLE for the six tables: user_id REFERENCES users(id), users.name UNIQUE,
\* budgets UNIQUE(user_id, category)
CreateTables(d) ==
    IF d.tables # {} THEN Err(d)
    ELSE Ok([d EXCEPT !.tables = AllTables, !.userIdCol = ResourceTables,
                      !.constraints = {"users_name_key", "budgets_user_id_category_key"}
                                         \cup {InlineFkName(t) : t \in ResourceTables}])

\* The process of that revision starts: initDB() is called
ResetStart ==
    /\ mig.status \in {"off", "done", "failed"}
    /\ mig.runs < MaxRuns
    /\ mig' = [status |-> "resetting", pc |-> 1, runs |-> mig.runs + 1, at |-> served,
               rerun |-> FALSE, kills |-> mig.kills]
    /\ tasks' = [k \in TaskIds |-> IdleTask]
    /\ last' = NoResponse
    /\ pre' = db
    /\ UNCHANGED <<db, served>>

ResetDropTables ==
    /\ mig.status = "resetting" /\ mig.pc = 1
    /\ db' = DropTablesIfExist(db).db
    /\ mig' = [mig EXCEPT !.pc = 2]
    /\ UNCHANGED <<tasks, last, served, pre>>

ResetCreateTables ==
    /\ mig.status = "resetting" /\ mig.pc = 2
    /\ LET res == CreateTables(db)
       IN  /\ db' = res.db
           /\ mig' = [mig EXCEPT !.status = IF res.ok THEN "done" ELSE "failed"]
    /\ UNCHANGED <<tasks, last, served, pre>>

NextReset == ResetStart \/ ResetDropTables \/ ResetCreateTables

\* Starts of the drop-and-recreate revision on stores the earlier revisions left
SpecReset == Init /\ [][NextReset]_vars

----------------------------------------------------------------------------
(* The revision that reads the owner from the user-id header: the handlers that
   follow the drop-and-recreate initDB *)

\* getUserId: parseInt of the user-id header, null when the header is absent; a
\* text that starts with no digit gives NaN, a fraction is cut towards zero
getUserId(h) ==
    CASE h.kind = "absent" -> [kind |-> "null", n |-> NULL]
      [] h.kind = "text" -> [kind |-> "nan", n |-> NULL]
      [] h.kind = "num" -> [kind |-> "int", n |-> h.n]
      [] h.kind = "frac" -> [kind |-> "int", n |-> IF h.n < 0 THEN h.n + 1 ELSE h.n]

\* !userId
Falsy(u) == u.kind \in {"null", "nan"} \/ u.n = 0

\* POST /api/<kind>: transactions alone refuse a request without owner; NaN is
\* no integer for the store, null is stored as it is
HeaderCreateHandler(d, t, u, amt) ==
    IF t = "transactions" /\ Falsy(u) THEN Result(d, 401, NULL, "none")
    ELSE IF u.kind = "nan" THEN Result(d, 500, NULL, "invalid_text")
    ELSE CreateHandler(d, t, u.n, amt)

\* POST /api/budgets, first statement: user_id = NULL selects no row
HeaderUpsertFound(d, u, cat) ==
    IF u.kind = "null" THEN {NULL} ELSE UpsertFound(d, u.n, cat)

\* POST /api/budgets, second statement: UPDATE by category and owner, or INSERT
HeaderUpsertWrite(d, u, cat, amt, found) ==
    IF found # NULL THEN
        LET res == UpdateRows(d, "budgets", ByCategory(d, u.n, cat), amt)
        IN  IF res.ok THEN Result(res.db, 200, found, "none") ELSE Result(d, 500, NULL, res.err)
    ELSE
        LET res == InsertRow(d, "budgets", u.n, cat, amt)
        IN  IF res.ok THEN Result(res.db, 200, res.id, "none") ELSE Result(d, 500, NULL, res.err)

\* POST /api/auth/register, first statement: does a user hold the name?
NameTaken(d, name) == \E u \in d.users : u.name = name

\* The store the drop-and-recreate initDB leaves
RecreatedStore == CreateTables(DropTablesIfExist(FreshStore).db).db

InitRecreated ==
    /\ db = RecreatedStore
    /\ mig = [status |-> "done", pc |-> 2, runs |-> 1, at |-> 0, rerun |-> FALSE,
              kills |-> 0]
    /\ tasks = [k \in TaskIds |-> IdleTask]
    /\ last = NoResponse
    /\ served = 0
    /\ pre = db

HeaderCreateRow(t, h, amt) ==
    /\ Accept
    /\ LET u == getUserId(h)
           res == HeaderCreateHandler(db, t, u, amt)
       IN  /\ res.status = 200 => HasRoom(t)
           /\ Respond("create", t, u.n, NULL, NoCategory, amt, "none", res)
    /\ UNCHANGED <<mig, tasks, pre>>

\* POST /api/budgets up to the first await
HeaderUpsertSelect(k, h, cat, amt) ==
    /\ Accept
    /\ tasks[k].pc = "idle"
    /\ LET u == getUserId(h)
       IN  IF u.kind = "nan" \/ ~Columns(db, "budgets")
           THEN /\ Respond("upsert", "budgets", NULL, NULL, cat, amt, "none",
                           Result(db, 500, NULL,
                                  IF u.kind = "nan" THEN "invalid_text" ELSE "undefined"))
                /\ UNCHANGED tasks
           ELSE \E found \in HeaderUpsertFound(db, u, cat) :
                   /\ found = NULL => HasRoom("budgets")
                   /\ tasks' = [tasks EXCEPT ![k] =
                                   [IdleTask EXCEPT !.pc = "upsert_write", !.uid = u.n,
                                       !.cat = cat, !.val = amt, !.found = found]]
                   /\ UNCHANGED <<db, last>>
    /\ UNCHANGED <<mig, pre>>

\* POST /api/budgets from the first await to the response
HeaderUpsertStore(k) ==
    /\ tasks[k].pc = "upsert_write"
    /\ LET t == tasks[k]
       IN  Respond("upsert", "budgets", t.uid, t.found, t.cat, t.val, "none",
                   HeaderUpsertWrite(db, [kind |-> IF t.uid = NULL THEN "null" ELSE "int",
                                          n |-> t.uid],
                                     t.cat, t.val, t.found))
    /\ tasks' = [tasks EXCEPT ![k] = IdleTask]
    /\ UNCHANGED <<mig, served, pre>>

\* POST /api/auth/register up to the first await
NameRegisterLookup(k, name, pin) ==
    /\ Accept
    /\ tasks[k].pc = "idle"
    /\ IF "users" \notin db.tables
       THEN /\ Respond("register", "users", NULL, NULL, NoCategory, NULL, pin,
                       Result(db, 500, NULL, "undefined"))
            /\ UNCHANGED tasks
       ELSE IF NameTaken(db, name)
       THEN /\ Respond("register", "users", NULL, NULL, NoCategory, NULL, pin,
                       Result(db, 400, NULL, "none"))
            /\ UNCHANGED tasks
       ELSE /\ db.seq["users"] + Registering < MaxUsers
            /\ tasks' = [tasks EXCEPT ![k] =
                            [IdleTask EXCEPT !.pc = "register_insert", !.name = name,
                                             !.pin = pin]]
            /\ UNCHANGED <<db, last>>
    /\ UNCHANGED <<mig, pre>>

NextUserIdHeader ==
    \/ \E t \in IdTables, h \in AllHeaders, amt \in Amounts : HeaderCreateRow(t, h, amt)
    \/ \E k \in TaskIds, h \in AllHeaders, cat \in Categories, amt \in Amounts :
          HeaderUpsertSelect(k, h, cat, amt)
    \/ \E k \in TaskIds : HeaderUpsertStore(k)
    \/ \E k \in TaskIds, name \in Names, pin \in Pins : NameRegisterLookup(k, name, pin)
    \/ \E k \in TaskIds : RegisterInsert(k)

\* Creates, budget upserts and registrations of that revision on the store its
\* initDB leaves
SpecUserIdHeader == InitRecreated /\ [][NextUserIdHeader]_vars

----------------------------------------------------------------------------
(* The single-tenant revision: no owner column, one user kept up to date *)

\* The ORDER BY clause of the single-tenant List of table t
LegacyOrderBy(t) == IF t = "transactions" THEN "date_desc" ELSE "id_asc"

\* GET /api/<kind> of the single-tenant revision: SELECT * FROM t ORDER BY ...
LegacyListHandler(d, t) ==
    IF t \notin d.tables THEN {[status |-> 500, err |-> "undefined", rows |-> <<>>]}
    ELSE {[status |-> 200, err |-> "none", rows |-> s] :
             s \in Ordered(d.rows[t], LegacyOrderBy(t))}

\* UPDATE users SET name=$1, pin=$2 WHERE id=$3
UpdateUser(d, id, name, pin) ==
    LET us == {IF u.id = id THEN [u EXCEPT !.name = name, !.pin = pin] ELSE u :
                  u \in d.users}
    IN  IF "users" \notin d.tables
        THEN [ok |-> FALSE, err |-> "undefined", db |-> d]
        ELSE IF "users_pin_unique" \in d.constraints /\ ~PinsDistinct(us)
        THEN [ok |-> FALSE, err |-> "violation", db |-> d]
        ELSE [ok |-> TRUE, err |-> "none", db |-> [d EXCEPT !.users = us]]

\* POST /api/auth/register of the single-tenant revision, second statement: the
\* user the SELECT found is overwritten, and a user is inserted when it found none
LegacyRegisterWrite(d, name, pin, found) ==
    IF found # NULL THEN
        LET res == UpdateUser(d, found, name, pin)
        IN  IF res.ok THEN Result(res.db, 200, NULL, "none") ELSE Result(d, 500, NULL, res.err)
    ELSE RegisterWrite(d, name, pin)

\* The store a single-tenant process serves, its transactions on any days
Redated(d, day) ==
    [d EXCEPT !.rows["transactions"] = {[r EXCEPT !.date = day[r.id]] : r \in @}]

InitSingleTenant ==
    /\ \E d \in LegacyStores : \E day \in [1..MaxRows -> Dates] : db = Redated(d, day)
    /\ mig = [status |-> "done", pc |-> 1, runs |-> 1, at |-> 0, rerun |-> FALSE,
              kills |-> 0]
    /\ tasks = [k \in TaskIds |-> IdleTask]
    /\ last = NoResponse
    /\ served = 0
    /\ pre = db

LegacyListRows(t) ==
    /\ Accept
    /\ \E res \in LegacyListHandler(db, t) : last' = ListResponse(t, NULL, res)
    /\ UNCHANGED <<db, mig, tasks, pre>>

\* POST /api/auth/register up to the first await: SELECT * FROM users LIMIT 1
\* returns whichever user the store comes to first
LegacyRegisterSelect(k, name, pin) ==
    /\ Accept
    /\ tasks[k].pc = "idle"
    /\ IF "users" \notin db.tables
       THEN /\ Respond("register", "users", NULL, NULL, NoCategory, NULL, pin,
                       Result(db, 500, NULL, "undefined"))
            /\ UNCHANGED tasks
       ELSE /\ db.users = {} => db.seq["users"] + Registering < MaxUsers
            /\ \E found \in IF db.users = {} THEN {NULL} ELSE UserIdSet(db) :
                  tasks' = [tasks EXCEPT ![k] =
                               [IdleTask EXCEPT !.pc = IF found = NULL THEN "register_insert"
                                                       ELSE "register_update",
                                                !.name = name, !.pin = pin,
                                                !.found = found]]
            /\ UNCHANGED <<db, last>>
    /\ UNCHANGED <<mig, pre>>

\* POST /api/auth/register from the first await to the response
LegacyRegisterWrite2(k) ==
    /\ tasks[k].pc \in {"register_insert", "register_update"}
    /\ Respond("register", "users", NULL, tasks[k].found, NoCategory, NULL, tasks[k].pin,
               LegacyRegisterWrite(db, tasks[k].name, tasks[k].pin, tasks[k].found))
    /\ tasks' = [tasks EXCEPT ![k] = IdleTask]
    /\ UNCHANGED <<mig, served, pre>>

NextSingleTenant ==
    \/ \E t \in ResourceTables : LegacyListRows(t)
    \/ \E k \in TaskIds, name \in Names, pin \in Pins : LegacyRegisterSelect(k, name, pin)
    \/ \E k \in TaskIds : LegacyRegisterWrite2(k)

\* Lists and registrations of the single-tenant revision on the stores it keeps
SpecSingleTenant == InitSingleTenant /\ [][NextSingleTenant]_vars

\* Budgets and registrations beside the running initDB, from an empty database
NextBudgets == ProcessStart \/ MigStep \/ RequestUsers \/ RequestBudgets

SpecBudgets == InitFresh /\ [][NextBudgets]_vars

\* Registrations beside the running initDB
NextUsers == ProcessStart \/ MigStep \/ RequestUsers

SpecUsers == Init /\ [][NextUsers]_vars

----------------------------------------------------------------------------
(* Properties of the migration engine *)

\* A run of initDB has just ended: no request has been accepted since it started
RunEnded == MigEnded /\ served = mig.at

\* after holds every user and row of before; a row differs at most by an owner
\* set where none was
Preserved(before, after) ==
    /\ after.users = before.users
    /\ \A t \in ResourceTables :
          /\ Cardinality(after.rows[t]) = Cardinality(before.rows[t])
          /\ \A r \in before.rows[t] :
                \E s \in after.rows[t] :
                    /\ s.id = r.id /\ s.category = r.category /\ s.amount = r.amount
                    /\ \/ s.user_id = r.user_id
                       \/ r.user_id = NULL /\ s.user_id \in UserIdSet(after)

\* C1: a run of initDB that directly follows an ended run, nothing in between,
\* leaves the store (tables, columns, indexes, constraints, nullability, rows and
\* their owners) exactly as the first run left it
C1_Idempotent == (RunEnded /\ mig.rerun) => db = pre

\* A second run ended on a migrated store that holds owned rows
C1_Witness ==
    /\ RunEnded /\ mig.rerun /\ mig.status = "done"
    /\ db.notNull # {}
    /\ \E r \in AllRows(db) : r.user_id # NULL

\* C2: during and after a run of initDB, finished or failed, every user and every
\* row that existed when the run started still exists, and a row has changed at
\* most by a null user_id becoming an owner id
C2_NoDataLoss == (mig.status # "off" /\ served = mig.at) => Preserved(pre, db)

\* A run ended having given an owner to a row that had none
C2_Witness ==
    /\ RunEnded
    /\ \E t \in ResourceTables : \E r \in pre.rows[t] : \E s \in db.rows[t] :
          r.user_id = NULL /\ s.id = r.id /\ s.user_id # NULL

\* C3: when a run ends, every row that had no owner at its start is owned by the
\* single user if exactly one user existed at the start, and still has no owner if
\* zero or several users existed
C3_BackfillRule ==
    RunEnded =>
        \A t \in ResourceTables : \A r \in pre.rows[t] :
            r.user_id = NULL =>
                \E s \in db.rows[t] :
                    /\ s.id = r.id
                    /\ s.user_id = IF Cardinality(pre.users) = 1
                                   THEN Min(UserIdSet(pre)) ELSE NULL

----------------------------------------------------------------------------
(* Properties of the record store *)

NotFound(d) == Result(d, 404, NULL, "none")

\* C4 as stated: an Update or Delete by owner A against the id (for budgets, the
\* category) of a row of another owner B answers 404 and leaves the store as it was
C4_TenantIsolation ==
    \A A \in UserIds : \A t \in ResourceTables : \A r \in db.rows[t] : \A amt \in Amounts :
        (r.user_id # NULL /\ r.user_id # A) =>
            IF t = "budgets"
            THEN /\ PutBudgetHandler(db, A, r.category, amt) = NotFound(db)
                 /\ DeleteBudgetHandler(db, A, r.category) = NotFound(db)
            ELSE /\ UpdateHandler(db, t, A, r.id, amt) = NotFound(db)
                 /\ DeleteHandler(db, t, A, r.id) = NotFound(db)

\* What a budget request of owner uid for category cat may touch: nothing but
\* uid's own rows of that category, and 404 with no change when there is none
OwnBudgetOnly(res, uid, cat) ==
    /\ \A s \in db.rows["budgets"] :
          (s.user_id # uid \/ s.category # cat) => s \in res.db.rows["budgets"]
    /\ \A s \in res.db.rows["budgets"] :
          (s.user_id # uid \/ s.category # cat) => s \in db.rows["budgets"]
    /\ \A t \in IdTables : res.db.rows[t] = db.rows[t]
    /\ ByCategory(db, uid, cat) = {} => res = NotFound(db)

\* C4 amended: an Update or Delete by owner A against the id of a row of another
\* owner B answers 404 and leaves the store as it was; a budget Update or Delete
\* by A for the category of B's row leaves B's row and every row not A's own
\* budget of that category untouched, and answers 404 when A has no such budget
C4_TenantIsolationAmended ==
    \A A \in UserIds : \A t \in ResourceTables : \A r \in db.rows[t] : \A amt \in Amounts :
        (r.user_id # NULL /\ r.user_id # A) =>
            IF t = "budgets"
            THEN /\ OwnBudgetOnly(PutBudgetHandler(db, A, r.category, amt), A, r.category)
                 /\ OwnBudgetOnly(DeleteBudgetHandler(db, A, r.category), A, r.category)
            ELSE /\ UpdateHandler(db, t, A, r.id, amt) = NotFound(db)
                 /\ DeleteHandler(db, t, A, r.id) = NotFound(db)

\* An Update or Delete aimed at another owner's row was answered 404
C4_Witness ==
    /\ last.op \in {"update", "delete"} /\ last.status = 404
    /\ \/ \E r \in db.rows[last.tbl] :
             last.tbl # "budgets" /\ r.id = last.key
             /\ r.user_id # NULL /\ r.user_id # last.uid
       \/ \E r \in db.rows["budgets"] :
             last.tbl = "budgets" /\ r.category = last.cat
             /\ r.user_id # NULL /\ r.user_id # last.uid

\* C5: once a run of initDB has ended, whatever requests and runs are interleaved,
\* budgets holds at most one row per (user_id, category)
C5_OnePerUserCategory == MigEnded => UserCategoryDistinct(db.rows["budgets"])

\* The budget rows of owner uid for category cat are exactly one row: id, amt
SingleBudget(d, uid, cat, id, amt) ==
    ByCategory(d, uid, cat) =
        {[id |-> id, user_id |-> uid, category |-> cat, amount |-> amt,
          date |-> NULL]}

\* C6: on a migrated store, an upsert (owner, c, x) followed directly by an upsert
\* (owner, c, y) leaves exactly one budget of (owner, c) with limit y, both answer
\* 200 with the same id, and that id is a new one when no row existed before
C6_UpsertTwice ==
    mig.status = "done" =>
        \A uid \in UserIdSet(db) : \A c \in Categories : \A x, y \in Amounts :
            \A f1 \in UpsertFound(db, uid, c) :
                LET r1 == UpsertWrite(db, uid, c, x, f1)
                IN  /\ r1.status = 200
                    /\ SingleBudget(r1.db, uid, c, r1.id, x)
                    /\ f1 = NULL => r1.id \notin {r.id : r \in db.rows["budgets"]}
                    /\ \A f2 \in UpsertFound(r1.db, uid, c) :
                          LET r2 == UpsertWrite(r1.db, uid, c, y, f2)
                          IN  /\ r2.status = 200
                              /\ r2.id = r1.id
                              /\ SingleBudget(r2.db, uid, c, r1.id, y)

\* An upsert found the owner's budget, updated it in place and returned its id
C6_Witness ==
    /\ mig.status = "done"
    /\ last.op = "upsert" /\ last.status = 200
    /\ last.key # NULL /\ last.id = last.key
    /\ SingleBudget(db, last.uid, last.cat, last.id, last.val)

\* C7: on a migrated store where budget upserts are the only requests, every
\* upsert of a registered owner, concurrent with another or not, answers 200 with
\* the id of the one budget of (owner, category)
C7_RaceResolved ==
    (mig.status = "done" /\ last.op = "upsert" /\ last.uid \in UserIdSet(db)) =>
        /\ last.status = 200
        /\ ByCategory(db, last.uid, last.cat) # {}
        /\ \A r \in ByCategory(db, last.uid, last.cat) : r.id = last.id

\* C8: a registration whose pin a user already holds is answered 409 at once and
\* changes nothing in the store
C8_RegisterConflict ==
    [][\A k \in TaskIds : \A name \in Names : \A pin \in Pins :
          (RegisterLookup(k, name, pin) /\ \E u \in db.users : u.pin = pin) =>
              /\ last'.op = "register" /\ last'.pin = pin /\ last'.status = 409
              /\ db' = db
              /\ tasks' = tasks]_vars

\* A registration was answered 409 and a user holds its pin
C8_Witness ==
    /\ last.op = "register" /\ last.status = 409
    /\ \E u \in db.users : u.pin = last.pin

\* C9: once a run of initDB has ended, no two users hold the same pin
C9_PinsUnique == MigEnded => PinsDistinct(db.users)

\* C10: a registration refused by the store's uniqueness constraint at insert time
\* is answered 409
C10_DuplicateIsConflict ==
    (last.op = "register" /\ last.err = "violation") => last.status = 409

----------------------------------------------------------------------------
(* Properties of process start and of the run's stages *)

\* C11: while initDB still has statements to run, no request has been accepted
\* by the process that is running it
C11_NoRequestBeforeMigrationEnds == mig.status = "running" => served = mig.at

\* C12: once a statement of initDB has failed, the process accepts no request
C12_FailedStartServesNothing == mig.status = "failed" => served = mig.at

\* C13: a run whose users_pin_unique or budgets unique statement failed has still
\* executed the later stages: every resource table has its user_id column and its
\* foreign key, and the run went on to its last statement
C13_LaterStagesStillRun ==
    (MigEnded /\ mig.status = "failed"
        /\ MigPlan[mig.pc].op \in {"pin_unique", "budgets_unique"}) =>
            /\ \A t \in ResourceTables : t \in db.userIdCol /\ FkName(t) \in db.constraints
            /\ mig.pc = Len(MigPlan)

\* A run of either revision is under way or has ended, no request accepted since
InRun == mig.status # "off" /\ served = mig.at

\* C14: a start of any revision's initDB on a store that holds users and rows
\* leaves every one of them in place
C14_NoRevisionDestroysRows ==
    InRun =>
        /\ \A u \in pre.users : u \in db.users
        /\ \A t \in ResourceTables : \A r \in pre.rows[t] :
              \E s \in db.rows[t] : s.id = r.id

\* C15: the NOT NULL statement of initDB marks exactly the tables that hold no
\* row without owner, leaves a table that holds one nullable, changes no row and
\* no user, and ends the run as done
C15_TightenOnlyWithoutNulls ==
    [][MigTighten =>
          /\ \A t \in ResourceTables :
                /\ HasNullOwner(db, t) => t \notin db'.notNull
                /\ ~HasNullOwner(db, t) => t \in db'.notNull
          /\ db'.rows = db.rows /\ db'.users = db.users
          /\ mig'.status = "done"]_vars

\* A run ended as done with one table left nullable and another marked NOT NULL
C15_Witness ==
    /\ mig.status = "done" /\ served = mig.at
    /\ \E t \in ResourceTables : HasNullOwner(db, t) /\ t \notin db.notNull
    /\ \E t \in ResourceTables : db.rows[t] # {} /\ t \in db.notNull

\* C16: whenever the budgets table exists it carries budgets_category_key or
\* budgets_user_category_unique
C16_BudgetsAlwaysUnique ==
    "budgets" \in db.tables =>
        \/ "budgets_category_key" \in db.constraints
        \/ "budgets_user_category_unique" \in db.constraints

\* The stage of the run a statement of initDB belongs to: 1 SchemaEnsured,
\* 2 ConstraintsReconciled, 3 Backfilled, 4 NullabilityTightened
Stage(op) ==
    CASE op \in {"table", "column", "index"} -> 1
      [] op \in {"pin_unique", "budgets_unique", "foreign_keys"} -> 2
      [] op = "backfill" -> 3
      [] op = "tighten" -> 4

\* C17: no statement of a run belongs to an earlier stage than a statement the run
\* has already executed
C17_StagesInOrder ==
    mig.status = "running" =>
        \A i \in 1..(mig.pc - 1) :
            Stage(MigPlan[i].op) <= Stage(MigPlan[mig.pc].op)

\* C18: wherever a run is cut, by a kill or a failing statement, the store still
\* holds every user and row it held, and a complete run from there ends in the
\* same store as the uninterrupted run from the store the cut run started on
C18_RestartConverges ==
    InRun =>
        /\ Preserved(pre, db)
        /\ RunFrom(db, 1).db = RunFrom(pre, 1).db
        /\ MigEnded => db = RunFrom(pre, 1).db

\* A run restarted after a kill in the middle of the schema steps ended as done,
\* with rows it gave an owner
C18_Witness ==
    /\ mig.kills = 1 /\ mig.status = "done"
    /\ pre.userIdCol # {} /\ pre.userIdCol # ResourceTables
    /\ \E r \in AllRows(db) : r.user_id # NULL

\* C19 as stated: when a run has ended as done no resource row is without owner
C19_AllRowsOwned ==
    (mig.status = "done" /\ served = mig.at) =>
        \A r \in AllRows(db) : r.user_id # NULL

\* C19 amended: when a run has ended as done, no resource row is without owner if
\* exactly one user exists; with zero or several users ownerless rows may remain,
\* and user_id is NOT NULL on exactly the tables that hold none
C19_AllRowsOwnedAmended ==
    (mig.status = "done" /\ served = mig.at) =>
        /\ Cardinality(db.users) = 1 => \A r \in AllRows(db) : r.user_id # NULL
        /\ \A t \in ResourceTables : t \in db.notNull <=> ~HasNullOwner(db, t)

\* A run ended as done with a single user, having given every ownerless row to it
C19_Witness ==
    /\ mig.status = "done" /\ served = mig.at
    /\ Cardinality(db.users) = 1
    /\ db.notNull = ResourceTables
    /\ \E r \in AllRows(pre) : r.user_id = NULL

\* C20: on a store where a run of initDB has ended as done, whatever requests and
\* user deletions follow, every owned row belongs to an existing user, a Create
\* or budget insert for an id no user has stores nothing, and deleting a user
\* removes exactly that user and the rows it owns
C20_ReferentialIntegrity ==
    mig.status = "done" =>
        /\ \A r \in AllRows(db) : r.user_id # NULL => r.user_id \in UserIdSet(db)
        /\ \A uid \in UserIds \ UserIdSet(db) : \A amt \in Amounts :
              /\ \A t \in IdTables :
                    LET res == CreateHandler(db, t, uid, amt)
                    IN  res.db = db /\ res.status = 500
              /\ \A cat \in Categories :
                    UpsertWrite(db, uid, cat, amt, NULL).db = db
        /\ \A uid \in UserIdSet(db) :
              LET after == DeleteUser(db, uid).db
              IN  /\ after.users = {u \in db.users : u.id # uid}
                  /\ \A t \in ResourceTables :
                        after.rows[t] = {r \in db.rows[t] : r.user_id # uid}

\* A user was deleted and a Create carrying its id was then refused by the store
C20_Witness ==
    /\ mig.status = "done"
    /\ last.op = "create" /\ last.status = 500 /\ last.err = "violation"
    /\ last.uid \in 1..db.seq["users"] /\ last.uid \notin UserIdSet(db)
    /\ \A r \in AllRows(db) : r.user_id # last.uid

----------------------------------------------------------------------------
(* Properties of the Lists and of the owner header *)

\* The rows of a List response, as a set
ListedRows(rows) == {rows[i] : i \in 1..Len(rows)}

\* C21: whatever requests came before, a List of any kind for owner uid returns
\* each row of that kind whose user_id is uid once, and no row of another owner
\* or without owner
C21_ListOwnRowsOnly ==
    /\ \A t \in ResourceTables : \A uid \in UserIds : \A res \in ListHandler(db, t, uid) :
          res.status = 200 =>
              /\ \A r \in db.rows[t] : r \in ListedRows(res.rows) <=> r.user_id = uid
              /\ \A r \in ListedRows(res.rows) : r \in db.rows[t]
              /\ Len(res.rows) = Cardinality(ListedRows(res.rows))
    /\ (last.op = "list" /\ last.status = 200) =>
          /\ \A r \in ListedRows(last.rows) : r.user_id = last.uid /\ r \in db.rows[last.tbl]
          /\ \A r \in db.rows[last.tbl] : r.user_id = last.uid => r \in ListedRows(last.rows)

\* A List returned the owner's rows and left out a row of the table that is not
\* the owner's
C21_Witness ==
    /\ last.op = "list" /\ last.status = 200
    /\ Len(last.rows) >= 1
    /\ \E r \in db.rows[last.tbl] : r.user_id # last.uid

\* C22: a List of transactions returns its rows by date descending and, among
\* rows of one date, by identifier descending; a List of any other kind returns
\* them by identifier ascending
C22_ListOrder ==
    (last.op = "list" /\ last.status = 200) =>
        \A i, j \in 1..Len(last.rows) :
            i < j =>
                IF last.tbl = "transactions"
                THEN \/ last.rows[i].date > last.rows[j].date
                     \/ /\ last.rows[i].date = last.rows[j].date
                        /\ last.rows[i].id > last.rows[j].id
                ELSE last.rows[i].id < last.rows[j].id

\* C23: a List, Create, Update, Delete or budget upsert whose x-user-id header
\* carries no positive integer is answered 401, no statement issued
C23_OnlyPositiveIntegers ==
    (last.op \in {"list", "create", "update", "delete", "upsert"} /\ last.uid = NULL) =>
        last.status = 401 /\ last.err = "none"

\* C24: a Create or a budget upsert that inserts a row answers with the new
\* row's identifier, and that row carries the owner id of the request, never
\* null and never another owner's
C24_CreatedRowsOwned ==
    (last.op \in {"create", "upsert"} /\ last.status = 200 /\ last.key = NULL) =>
        /\ last.uid # NULL
        /\ \E r \in db.rows[last.tbl] : r.id = last.id /\ r.user_id = last.uid
        /\ \A r \in db.rows[last.tbl] : r.id = last.id => r.user_id = last.uid

\* C25: a Create, or a budget upsert that inserts, by a registered owner whose
\* body lacks the money field is answered 200 and stores a row with zero in it
C25_AbsentMoneyIsZero ==
    (/\ last.op \in {"create", "upsert"} /\ last.key = NULL
     /\ last.val = Absent /\ last.uid \in UserIdSet(db)) =>
        /\ last.status = 200
        /\ \E r \in db.rows[last.tbl] : r.id = last.id /\ r.amount = 0

\* The store d without the row r of table t
Without(d, t, r) == [d EXCEPT !.rows[t] = @ \ {r}]

\* What the caller sees of a handler's result
Observed(res) == [status |-> res.status, id |-> res.id, err |-> res.err]

\* C26: for a row r held by an owner other than A, the answer A gets from an
\* Update or Delete aimed at r's identifier (for budgets, r's category) is the
\* answer A would get if r did not exist; for an identifier it is 404, and the
\* store is left as it was
C26_NoLeak ==
    \A A \in UserIds : \A t \in ResourceTables : \A r \in db.rows[t] : \A amt \in Amounts :
        (r.user_id # NULL /\ r.user_id # A) =>
            LET gone == Without(db, t, r)
            IN  IF t = "budgets"
                THEN /\ Observed(PutBudgetHandler(db, A, r.category, amt))
                            = Observed(PutBudgetHandler(gone, A, r.category, amt))
                     /\ Observed(DeleteBudgetHandler(db, A, r.category))
                            = Observed(DeleteBudgetHandler(gone, A, r.category))
                ELSE /\ Observed(UpdateHandler(db, t, A, r.id, amt))
                            = Observed(UpdateHandler(gone, t, A, r.id, amt))
                     /\ Observed(DeleteHandler(db, t, A, r.id))
                            = Observed(DeleteHandler(gone, t, A, r.id))
                     /\ UpdateHandler(db, t, A, r.id, amt) = NotFound(db)
                     /\ DeleteHandler(db, t, A, r.id) = NotFound(db)
                     /\ UpdateHandler(gone, t, A, r.id, amt) = NotFound(gone)
                     /\ DeleteHandler(gone, t, A, r.id) = NotFound(gone)

\* An Update or Delete aimed at the identifier of another owner's row got the
\* answer it gets on the store without that row
C26_Witness ==
    /\ last.op \in {"update", "delete"} /\ last.tbl \in IdTables
    /\ \E r \in db.rows[last.tbl] :
          /\ r.id = last.key /\ r.user_id # NULL /\ r.user_id # last.uid
          /\ last.status = DeleteHandler(Without(db, last.tbl, r), last.tbl,
                                         last.uid, last.key).status

\* C27: no step of a request or of a run of initDB changes the user_id of a row
\* that has one
C27_NoReassignment ==
    [][\A t \in ResourceTables : \A r \in db.rows[t] :
          r.user_id # NULL =>
              \A s \in db'.rows[t] : s.id = r.id => s.user_id = r.user_id]_vars

\* A later run of initDB, one user registered, ended on a store that held a row
\* of that user and an ownerless row, which it gave to the user
C27_Witness ==
    /\ mig.runs >= 2 /\ mig.status = "done" /\ served = mig.at
    /\ \E r \in AllRows(pre) : r.user_id # NULL
    /\ \E t \in ResourceTables : \E r \in pre.rows[t] : \E s \in db.rows[t] :
          r.user_id = NULL /\ s.id = r.id /\ s.user_id # NULL

\* C28: a step of a register request leaves the users as they are or adds one
\* user, the name and pin of every user it found unchanged
C28_RegisterOnlyInserts ==
    [][\/ db'.users = db.users
       \/ /\ \A u \in db.users : u \in db'.users
          /\ Cardinality(db'.users) = Cardinality(db.users) + 1]_vars

Surfaced(d, ok, res) == ~ok => res.status = 500 /\ res.db = d

\* C30: no handler of the Record Store absorbs a store failure: whenever a
\* statement it issues fails (constraint violation, missing table or column) the
\* response is the error 500 and never a success, and the store is left as it was
C30_FailuresSurface ==
    /\ last.err # "none" => last.status = 500 /\ last.id = NULL
    /\ \A uid \in UserIds, amt \in BodyAmounts :
          /\ \A t \in ResourceTables :
                /\ Surfaced(db, InsertRow(db, t, uid, NoCategory, amt).ok,
                            CreateHandler(db, t, uid, amt))
                /\ \A id \in Ids :
                      /\ Surfaced(db, UpdateRows(db, t, ById(db, t, uid, id), amt).ok,
                                  UpdateHandler(db, t, uid, id, amt))
                      /\ Surfaced(db, DeleteRows(db, t, ById(db, t, uid, id)).ok,
                                  DeleteHandler(db, t, uid, id))
                      /\ Surfaced(db, UpdateRows(db, "budgets", ById(db, "budgets", uid, id), amt).ok,
                                  UpsertWrite(db, uid, "food", amt, id))
                /\ ~Columns(db, t) => \A res \in ListHandler(db, t, uid) : res.status = 500
          /\ \A cat \in Categories :
                /\ Surfaced(db, InsertRow(db, "budgets", uid, cat, amt).ok,
                            UpsertWrite(db, uid, cat, amt, NULL))
                /\ Surfaced(db, UpdateRows(db, "budgets", ByCategory(db, uid, cat), amt).ok,
                            PutBudgetHandler(db, uid, cat, amt))
                /\ Surfaced(db, DeleteRows(db, "budgets", ByCategory(db, uid, cat)).ok,
                            DeleteBudgetHandler(db, uid, cat))
    /\ \A name \in Names, pin \in Pins :
          Surfaced(db, InsertUser(db, name, pin).ok, RegisterWrite(db, name, pin))

\* A create was refused by a constraint of the store and answered 500
C30_Witness ==
    /\ last.op = "create"
    /\ last.err = "violation"
    /\ last.status = 500
    /\ ~InsertRow(db, last.tbl, last.uid, NoCategory, last.val).ok

----------------------------------------------------------------------------
(* Properties of one owner's session and of the unowned rows *)

\* The step is a Delete by owner uid that removed the row r of table t
DeletedBy(t, r) ==
    /\ last' # last
    /\ last'.op = "delete" /\ last'.status = 200
    /\ last'.tbl = t /\ last'.uid = r.user_id
    /\ \/ last'.key = r.id
       \/ t = "budgets" /\ last'.key = NULL /\ last'.cat = r.category

\* The step is a List: a request was accepted, no task of a two-statement
\* handler moved, and the response is that of a List
ListedNow == served' = served + 1 /\ tasks' = tasks /\ last'.op = "list"

\* C31: a Create answered with success has stored its row under the owner; the
\* row stays, under that owner, through every step that is neither a Delete of it
\* by the owner nor the deletion of the owner; and every List of the owner gives
\* back all the rows of the kind the owner has
C31_ReadAfterWrite ==
    [][/\ (last' # last /\ last'.op = "create" /\ last'.status = 200) =>
              \E r \in db'.rows[last'.tbl] : r.id = last'.id /\ r.user_id = last'.uid
       /\ \A t \in ResourceTables : \A r \in db.rows[t] :
              r.user_id # NULL =>
                  \/ r \in db'.rows[t]
                  \/ \E s \in db'.rows[t] : s.id = r.id /\ s.user_id = r.user_id
                  \/ DeletedBy(t, r)
                  \/ r.user_id \in UserIdSet(db) /\ r.user_id \notin UserIdSet(db')
       /\ (ListedNow /\ last'.uid # NULL) =>
              /\ last'.status = 200
              /\ \A r \in db'.rows[last'.tbl] :
                    r.user_id = last'.uid => r \in ListedRows(last'.rows)]_vars

\* A List of an owner answered with a row that a Create of the session stored
C31_Witness ==
    /\ last.op = "list" /\ last.status = 200
    /\ \E r \in db.rows[last.tbl] :
          /\ r.user_id = last.uid
          /\ r \in ListedRows(last.rows)
          /\ r.id \notin {q.id : q \in pre.rows[last.tbl]}

\* The step is the second statement of a budget upsert and its response
UpsertAnswered == \E k \in TaskIds : tasks[k].pc = "upsert_write" /\ tasks'[k].pc = "idle"

\* C32: a budget upsert answered with success and the identifier i has written
\* the budget row i of the owner, with the category and the limit of the request
C32_UpsertWroteItsRow ==
    [][(UpsertAnswered /\ last'.status = 200 /\ last'.id # NULL) =>
           \E r \in db'.rows["budgets"] :
               /\ r.id = last'.id /\ r.user_id = last'.uid
               /\ r.category = last'.cat /\ r.amount = last'.val]_vars

\* The rows of table t that had no owner when the process started
Eligible(t) == {r \in pre.rows[t] : r.user_id = NULL}

\* What is left in the store of row r of table t
Kept(t, r) == {s \in db.rows[t] : s.id = r.id}

\* C33: in every state of a run of initDB and after it, whether the backfill
\* block succeeded, failed or did not apply, the rows of the five tables that had
\* no owner at process start have all been given to the single user, or none has
C33_BackfillAllOrNothing ==
    \/ \A t \in ResourceTables : \A r \in Eligible(t) : \A s \in Kept(t, r) :
          s.user_id = NULL
    \/ /\ Cardinality(pre.users) = 1
       /\ \A t \in ResourceTables : \A r \in Eligible(t) : \A s \in Kept(t, r) :
             s.user_id = Min(UserIdSet(pre))

\* A run ended on a store with a single user that held ownerless rows in two
\* tables, all of them now owned by that user
C33_Witness ==
    /\ RunEnded
    /\ Cardinality(pre.users) = 1
    /\ \E t, u \in ResourceTables :
          /\ t # u /\ Eligible(t) # {} /\ Eligible(u) # {}
          /\ \A r \in Eligible(t) : \E s \in Kept(t, r) : s.user_id # NULL
          /\ \A r \in Eligible(u) : \E s \in Kept(u, r) : s.user_id # NULL

\* Store d with every table but t emptied
OnlyTable(d, t) ==
    [d EXCEPT !.rows = [u \in ResourceTables |-> IF u = t THEN d.rows[t] ELSE {}]]

\* C34: when a run of initDB is at its NOT NULL block, the block raises no error
\* and leaves user_id NOT NULL on exactly the tables that hold no ownerless row;
\* what it does to one table is the same whatever rows the other four hold
C34_TightenPerTable ==
    MigAt("tighten") =>
        LET res == TightenNotNull(db)
        IN  /\ res.ok
            /\ res.db.rows = db.rows
            /\ \A t \in ResourceTables :
                  /\ t \in res.db.notNull <=> ~HasNullOwner(db, t)
                  /\ t \in res.db.notNull <=>
                         t \in TightenNotNull(OnlyTable(db, t)).db.notNull

\* A run ended as done: one table keeps an ownerless row and a nullable user_id,
\* the other four are NOT NULL, one of them holding a row
C34_Witness ==
    /\ mig.status = "done" /\ served = mig.at
    /\ \E t \in ResourceTables :
          /\ HasNullOwner(db, t)
          /\ db.notNull = ResourceTables \ {t}
          /\ \E u \in ResourceTables \ {t} : db.rows[u] # {}

\* C35: a table whose user_id is NOT NULL holds no ownerless row, and no step
\* of a request or of a later run of initDB makes its user_id nullable again
C35_NotNullStays ==
    [][\A t \in db.notNull :
          /\ ~HasNullOwner(db, t)
          /\ t \in db'.notNull
          /\ ~HasNullOwner(db', t)]_vars

\* A later run of initDB ended on a store where an earlier run had set user_id
\* NOT NULL on a table that holds rows: it still is
C35_Witness ==
    /\ mig.runs >= 2 /\ mig.status = "done" /\ served = mig.at
    /\ \E t \in ResourceTables :
          t \in pre.notNull /\ t \in db.notNull /\ db.rows[t] # {}

\* C36: a row without owner is in no List, and every step leaves it as it is,
\* except the backfill block of initDB, which may give it an owner
C36_UnownedOutOfReach ==
    [][/\ \A t \in ResourceTables : \A r \in db.rows[t] :
              r.user_id = NULL =>
                  \/ r \in db'.rows[t]
                  \/ /\ MigAt("backfill")
                     /\ \E s \in db'.rows[t] : s = [r EXCEPT !.user_id = s.user_id]
       /\ (ListedNow /\ last'.status = 200) =>
              \A r \in ListedRows(last'.rows) : r.user_id # NULL]_vars

\* An owner asked to update or delete, by its identifier, a row that has no
\* owner: the answer was 404 and the row is there
C36_Witness ==
    /\ last.op \in {"update", "delete"}
    /\ last.uid # NULL /\ last.key # NULL
    /\ last.status = 404
    /\ \E r \in db.rows[last.tbl] : r.id = last.key /\ r.user_id = NULL

\* Another owner than uid holds a budget of category cat
OthersBudget(d, uid, cat) ==
    \E a \in d.rows["budgets"] :
        a.category = cat /\ a.user_id # NULL /\ a.user_id # uid

\* C37: on a store of a single-tenant revision that initDB has migrated, the
\* second statement of a budget upsert of an existing user B whose lookup found
\* no budget of the category and who still has none, while another owner has
\* one, succeeds: it adds B's row with the requested limit and leaves every
\* other budget row as it was
C37_BudgetsUniquePerOwner ==
    [][\A k \in TaskIds :
          (/\ "budgets_category_key" \in pre.constraints /\ mig.status = "done"
           /\ tasks[k].pc = "upsert_write" /\ tasks'[k].pc = "idle"
           /\ tasks[k].found = NULL
           /\ tasks[k].uid \in UserIdSet(db)
           /\ ByCategory(db, tasks[k].uid, tasks[k].cat) = {}
           /\ OthersBudget(db, tasks[k].uid, tasks[k].cat))
          => /\ last'.status = 200
             /\ db.rows["budgets"] \subseteq db'.rows["budgets"]
             /\ \E r \in db'.rows["budgets"] :
                   /\ r.id = last'.id /\ r.user_id = tasks[k].uid
                   /\ r.category = tasks[k].cat /\ r.amount = tasks[k].val
                   /\ db'.rows["budgets"] = db.rows["budgets"] \cup {r}
                   /\ r \notin db.rows["budgets"]]_vars

\* On a migrated store of a single-tenant revision an upsert has inserted a
\* budget of a category another owner has a budget of
C37_Witness ==
    /\ "budgets_category_key" \in pre.constraints /\ mig.status = "done"
    /\ last.op = "upsert" /\ last.status = 200 /\ last.key = NULL
    /\ \E r \in db.rows["budgets"] : r.id = last.id /\ r.user_id = last.uid
    /\ OthersBudget(db, last.uid, last.cat)

\* The step is an Update or a Delete of a row by its identifier
ByIdNow ==
    /\ served' = served + 1 /\ tasks' = tasks
    /\ last'.op \in {"update", "delete"} /\ last'.key # NULL

\* C38: an Update or a Delete by identifier answered with success has changed
\* the amount of, or removed, the one row of that identifier the owner has, and
\* nothing else of the store; one answered otherwise has changed nothing
C38_UpdateDeleteFrame ==
    [][ByIdNow =>
          IF last'.status = 200
          THEN \E r \in db.rows[last'.tbl] :
                  /\ r.id = last'.key /\ r.user_id = last'.uid
                  /\ db' = [db EXCEPT !.rows[last'.tbl] =
                               IF last'.op = "delete" THEN @ \ {r}
                               ELSE (@ \ {r}) \cup {[r EXCEPT !.amount = last'.val]}]
          ELSE db' = db]_vars

\* An Update by identifier succeeded on a table that holds another row
C38_Witness ==
    /\ last.op = "update" /\ last.status = 200 /\ last.key # NULL
    /\ \E r, q \in db.rows[last.tbl] :
          /\ r.id = last.key /\ r.user_id = last.uid /\ r.amount = last.val
          /\ q.id # r.id /\ q.amount # last.val

====
